---- MODULE Spec2Model ----
(***************************************************************************)
(* Model of src/ResumeAnalyzer.py: the section segmenter, the style-aware  *)
(* segmenter, the skills and education parsers, and the part of main that  *)
(* chains them.  Python str values are TLA+ strings; Python lists are      *)
(* sequences; a dict is a sequence of [key, value] records in insertion    *)
(* order.                                                                  *)
(***************************************************************************)
EXTENDS Integers, Sequences, FiniteSets, TLC

VARIABLES
    \* extract_section(text, section, stop_sections)
    text, section, stop_sections, section_result, sec_pc,
    \* parse_skills(skills_text)
    skills_text, skill_lines, skill_i, skills, current, skills_pc,
    \* parse_education(edu_text)
    edu_text, edu_lines, edu_i, btech, inter, tenth, current_section, edu_pc,
    \* extract_bold_lines_from_section(file_stream, section_name, stop_words)
    doc, section_name, stop_words, page_i, inside_section, bold_lines,
    bold_result, bold_pc,
    \* main
    raw_text, skills_text_m, cert_text, certificates, skills_m, main_pc

sec_vars == <<text, section, stop_sections, section_result, sec_pc>>
skills_vars == <<skills_text, skill_lines, skill_i, skills, current, skills_pc>>
edu_vars == <<edu_text, edu_lines, edu_i, btech, inter, tenth, current_section, edu_pc>>
bold_vars == <<doc, section_name, stop_words, page_i, inside_section,
               bold_lines, bold_result, bold_pc>>
main_vars == <<raw_text, skills_text_m, cert_text, certificates, skills_m, main_pc>>
vars == <<sec_vars, skills_vars, edu_vars, bold_vars, main_vars>>

(***************************************************************************)
(* Bounds of the model.                                                    *)
(***************************************************************************)
MaxLines == 3
MaxDocLines == 3
MaxSkillLines == 4
MaxEduLines == 4
MaxSpans == 4
MaxPages == 2

(***************************************************************************)
(* Python str primitives.                                                  *)
(***************************************************************************)
\* s[a-1:b] of Python: the characters at 1-based offsets a..b, clipped to s.
Slice(s, a, b) ==
    LET lo == IF a < 1 THEN 1 ELSE a
        hi == IF b > Len(s) THEN Len(s) ELSE b
    IN  IF lo > hi THEN "" ELSE SubSeq(s, lo, hi)

Char(s, i) == Slice(s, i, i)

Suffix(s, i) == Slice(s, i, Len(s))

\* The case mappings of the ASCII letters, as records indexed by the letter.
ToUpper ==
    [ a |-> "A", b |-> "B", c |-> "C", d |-> "D", e |-> "E", f |-> "F", g |-> "G",
      h |-> "H", i |-> "I", j |-> "J", k |-> "K", l |-> "L", m |-> "M", n |-> "N",
      o |-> "O", p |-> "P", q |-> "Q", r |-> "R", s |-> "S", t |-> "T", u |-> "U",
      v |-> "V", w |-> "W", x |-> "X", y |-> "Y", z |-> "Z" ]

ToLower ==
    [ A |-> "a", B |-> "b", C |-> "c", D |-> "d", E |-> "e", F |-> "f", G |-> "g",
      H |-> "h", I |-> "i", J |-> "j", K |-> "k", L |-> "l", M |-> "m", N |-> "n",
      O |-> "o", P |-> "p", Q |-> "q", R |-> "r", S |-> "s", T |-> "t", U |-> "u",
      V |-> "v", W |-> "w", X |-> "x", Y |-> "y", Z |-> "z" ]

IsLower(c) == c \in DOMAIN ToUpper

IsUpper(c) == c \in DOMAIN ToLower

IsLetter(c) == IsLower(c) \/ IsUpper(c)

UpperChar(c) == IF IsLower(c) THEN ToUpper[c] ELSE c

LowerChar(c) == IF IsUpper(c) THEN ToLower[c] ELSE c

RECURSIVE UpperFrom(_, _)
UpperFrom(s, i) ==
    IF i > Len(s) THEN "" ELSE UpperChar(SubSeq(s, i, i)) \o UpperFrom(s, i + 1)

RECURSIVE LowerFrom(_, _)
LowerFrom(s, i) ==
    IF i > Len(s) THEN "" ELSE LowerChar(SubSeq(s, i, i)) \o LowerFrom(s, i + 1)

upper(s) == UpperFrom(s, 1)

lower(s) == LowerFrom(s, 1)

\* Python's `sub in s`.
Contains(sub, s) ==
    \/ sub = ""
    \/ \E i \in 1..(Len(s) - Len(sub) + 1) : SubSeq(s, i, i + Len(sub) - 1) = sub

\* str.startswith at 1-based offset i.
StartsAt(s, i, pre) ==
    /\ i >= 1
    /\ i + Len(pre) - 1 <= Len(s)
    /\ Slice(s, i, i + Len(pre) - 1) = pre

Whitespace == {" ", "\n", "\t", "\r"}

\* The bullet U+2022 of strip("•- "); "*" stands for it in every text here.
Bullet == "*"

BulletChars == {Bullet, "-", " "}

RECURSIVE lstrip(_, _)
lstrip(s, chars) ==
    IF s # "" /\ Char(s, 1) \in chars THEN lstrip(Suffix(s, 2), chars) ELSE s

RECURSIVE rstrip(_, _)
rstrip(s, chars) ==
    IF s # "" /\ Char(s, Len(s)) \in chars
    THEN rstrip(Slice(s, 1, Len(s) - 1), chars)
    ELSE s

\* str.strip(chars); str.strip() is strip(s, Whitespace).
strip(s, chars) == rstrip(lstrip(s, chars), chars)

\* Offset of the first character of s at or after offset i that is in chars,
\* or 0.
RECURSIVE FindFirst(_, _, _)
FindFirst(s, chars, i) ==
    IF i > Len(s) THEN 0
    ELSE IF Char(s, i) \in chars THEN i
    ELSE FindFirst(s, chars, i + 1)

\* str.split(sep) for a one-character sep: always at least one piece.
RECURSIVE split(_, _)
split(s, sep) ==
    LET i == FindFirst(s, {sep}, 1)
    IN  IF i = 0 THEN <<s>>
        ELSE <<Slice(s, 1, i - 1)>> \o split(Suffix(s, i + 1), sep)

\* str.splitlines(): breaks at "\n", "\r" and "\r\n"; no piece for the end of
\* a text that ends with a line break; "" gives [].
RECURSIVE splitlines(_)
splitlines(s) ==
    LET i == FindFirst(s, {"\n", "\r"}, 1)
        n == IF Char(s, i) = "\r" /\ Char(s, i + 1) = "\n" THEN 2 ELSE 1
    IN  IF s = "" THEN <<>>
        ELSE IF i = 0 THEN <<s>>
        ELSE <<Slice(s, 1, i - 1)>> \o splitlines(Suffix(s, i + n))

\* "\n".join(lines)
RECURSIVE JoinLines(_)
JoinLines(ls) ==
    IF ls = <<>> THEN ""
    ELSE IF Len(ls) = 1 THEN ls[1]
    ELSE ls[1] \o "\n" \o JoinLines(Tail(ls))

SeqsUpTo(S, n) == UNION {[1..k -> S] : k \in 0..n}

(***************************************************************************)
(* extract_section: re.search of                                           *)
(*   SECTION(.*?)(?=\n(?:STOP1|STOP2|...|$))   with re.DOTALL              *)
(* The headings hold letters only, so they match as literals.              *)
(***************************************************************************)
\* The alternatives of (?:...|$) other than $: '|'.join([]) is "", the empty
\* alternative, which matches everywhere.
StopAlternatives(stops) ==
    IF stops = <<>> THEN {""} ELSE {upper(stops[k]) : k \in 1..Len(stops)}

\* $ without re.MULTILINE: at the end, or before a newline that ends the text.
AtDollar(t, q) == q = Len(t) + 1 \/ (q = Len(t) /\ Char(t, q) = "\n")

\* (?=\n(?:...|$)) at offset p.
Lookahead(t, p, stops) ==
    /\ Char(t, p) = "\n"
    /\ \/ \E alt \in StopAlternatives(stops) : StartsAt(t, p + 1, alt)
       \/ AtDollar(t, p + 1)

\* The pattern matches with the heading at offset i.
MatchesAt(t, i, head, stops) ==
    /\ StartsAt(t, i, head)
    /\ \E p \in (i + Len(head))..Len(t) : Lookahead(t, p, stops)

\* re.search(...): the match object, with group(1); leftmost match, lazy group.
NoMatch == [matched |-> FALSE, group |-> ""]

Search(t, head, stops) ==
    IF \E i \in 1..Len(t) : MatchesAt(t, i, head, stops)
    THEN LET i == CHOOSE j \in 1..Len(t) :
                     /\ MatchesAt(t, j, head, stops)
                     /\ \A k \in 1..(j - 1) : ~MatchesAt(t, k, head, stops)
             b == i + Len(head)
             p == CHOOSE q \in b..Len(t) :
                     /\ Lookahead(t, q, stops)
                     /\ \A k \in b..(q - 1) : ~Lookahead(t, k, stops)
         IN  [matched |-> TRUE, group |-> Slice(t, b, p - 1)]
    ELSE NoMatch

NotFound == "Not found"

extract_section(t, sec, stops) ==
    LET match == Search(t, upper(sec), stops)
    IN  IF match.matched THEN strip(match.group, Whitespace) ELSE NotFound

(***************************************************************************)
(* extract_certificates, and the same comprehension in parse_education.    *)
(***************************************************************************)
NonBlank(line) == strip(line, Whitespace) # ""

extract_certificates(t) ==
    LET kept == SelectSeq(splitlines(t), NonBlank)
    IN  [k \in 1..Len(kept) |-> strip(kept[k], BulletChars)]

(***************************************************************************)
(* parse_skills.  The dict `skills` is a sequence of [key, value] records  *)
(* in insertion order; `current` is <<>> for None, else <<name>>.          *)
(***************************************************************************)
HasKey(d, k) == \E n \in 1..Len(d) : d[n].key = k

DictGet(d, k) == d[CHOOSE n \in 1..Len(d) : d[n].key = k].value

\* DictSet as dict.setdefault: a key already present keeps its value.
DictSet_KeepExisting(d, k, v) ==
    IF HasKey(d, k) THEN d ELSE Append(d, [key |-> k, value |-> v])

\* d[k] = v: a key already present keeps its place.
DictSet(d, k, v) ==
    IF HasKey(d, k)
    THEN [n \in 1..Len(d) |-> IF d[n].key = k THEN [key |-> k, value |-> v] ELSE d[n]]
    ELSE Append(d, [key |-> k, value |-> v])

\* re.match(r"^[A-Za-z ]+$", line): $ also matches before a final newline.
MatchLettersSpaces(line) ==
    LET body == IF Char(line, Len(line)) = "\n"
                THEN Slice(line, 1, Len(line) - 1) ELSE line
    IN  /\ body # ""
        /\ \A k \in 1..Len(body) : IsLetter(Char(body, k)) \/ Char(body, k) = " "

\* IsCategoryLine without the letters-and-spaces test.
IsCategoryLine_NoColonOnly(line) == ~Contains(":", line)

IsCategoryLine(line) == ~Contains(":", line) /\ MatchLettersSpaces(line)

\* [item.strip() for item in line.split(",") if item.strip()]
Items(line) ==
    LET parts == split(line, ",")
        kept == SelectSeq(parts, NonBlank)
    IN  [k \in 1..Len(kept) |-> strip(kept[k], Whitespace)]

\* One iteration of the loop of lines 55-63, on the raw line.
SkillsBody(st, raw) ==
    LET line == strip(raw, Whitespace)
    IN  IF line = "" THEN st
        ELSE IF IsCategoryLine(line)
        THEN [skills |-> DictSet(st.skills, line, <<>>), current |-> <<line>>]
        ELSE IF st.current # <<>>
        THEN [skills |-> DictSet(st.skills, st.current[1],
                                 DictGet(st.skills, st.current[1]) \o Items(line)),
              current |-> st.current]
        ELSE st

RECURSIVE SkillsLoop(_, _)
SkillsLoop(st, ls) ==
    IF ls = <<>> THEN st ELSE SkillsLoop(SkillsBody(st, Head(ls)), Tail(ls))

parse_skills(t) ==
    SkillsLoop([skills |-> <<>>, current |-> <<>>], splitlines(t)).skills

(***************************************************************************)
(* parse_education.  current_section names the list it refers to.          *)
(***************************************************************************)
\* The if/elif chain of lines 90-95: the list the line selects, or the
\* current one.
Reclassify(cur, line) ==
    LET l == lower(line)
    IN  IF Contains("bachelor", l) \/ Contains("b.tech", l) \/ Contains("engineering", l)
        THEN "btech"
        ELSE IF Contains("intermediate", l) \/ Contains("junior college", l)
        THEN "inter"
        ELSE IF Contains("secondary education", l) \/ Contains("high school", l)
        THEN "tenth"
        ELSE cur

\* EduBody with the append placed before the if/elif chain.
EduBody_AppendFirst(st, line) ==
    LET old == st.current_section
    IN  [ btech |-> IF old = "btech" THEN Append(st.btech, line) ELSE st.btech,
          inter |-> IF old = "inter" THEN Append(st.inter, line) ELSE st.inter,
          tenth |-> IF old = "tenth" THEN Append(st.tenth, line) ELSE st.tenth,
          current_section |-> Reclassify(old, line) ]

\* One iteration of the loop of lines 88-98.
EduBody(st, line) ==
    LET cur == Reclassify(st.current_section, line)
    IN  [ btech |-> IF cur = "btech" THEN Append(st.btech, line) ELSE st.btech,
          inter |-> IF cur = "inter" THEN Append(st.inter, line) ELSE st.inter,
          tenth |-> IF cur = "tenth" THEN Append(st.tenth, line) ELSE st.tenth,
          current_section |-> cur ]

(***************************************************************************)
(* extract_bold_lines_from_section.  A span is [text, font, flags].        *)
(***************************************************************************)
\* "bold" in span["font"].lower() or span.get("flags", 0) & 2
IsBold(span) ==
    Contains("bold", lower(span.font)) \/ (span.flags \div 2) % 2 = 1

\* BoldBody without the `continue` of line 30.
BoldBody_NoContinue(st, span, name, stops) ==
    LET t == strip(span.text, Whitespace)
        u == upper(t)
        entered == Contains(upper(name), u) \/ st.inside_section
        stopped == \E k \in 1..Len(stops) : Contains(stops[k], u)
        inside == IF stopped THEN FALSE ELSE entered
    IN  IF t = "" THEN st
        ELSE [inside_section |-> inside,
              bold_lines |-> IF inside /\ IsBold(span)
                             THEN Append(st.bold_lines, t)
                             ELSE st.bold_lines]

\* One iteration of the innermost loop, lines 25-34.
BoldBody(st, span, name, stops) ==
    LET t == strip(span.text, Whitespace)
        u == upper(t)
        stopped == \E k \in 1..Len(stops) : Contains(stops[k], u)
        inside == IF stopped THEN FALSE ELSE st.inside_section
    IN  IF t = "" THEN st
        ELSE IF Contains(upper(name), u)
        THEN [inside_section |-> TRUE, bold_lines |-> st.bold_lines]
        ELSE [inside_section |-> inside,
              bold_lines |-> IF inside /\ IsBold(span)
                             THEN Append(st.bold_lines, t)
                             ELSE st.bold_lines]

\* BoldResult without the sentinel.
BoldResult_NoSentinel(lines, name) == lines

\* line 35
BoldResult(lines, name) ==
    IF lines # <<>> THEN lines ELSE <<"No bold lines found in " \o upper(name)>>

(***************************************************************************)
(* Idle values of each function's variables, for the specifications that   *)
(* do not run it.                                                          *)
(***************************************************************************)
SecIdle ==
    /\ text = "" /\ section = "" /\ stop_sections = <<>>
    /\ section_result = "" /\ sec_pc = "idle"

SkillsIdle ==
    /\ skills_text = "" /\ skill_lines = <<>> /\ skill_i = 0
    /\ skills = <<>> /\ current = <<>> /\ skills_pc = "idle"

EduIdle ==
    /\ edu_text = "" /\ edu_lines = <<>> /\ edu_i = 0
    /\ btech = <<>> /\ inter = <<>> /\ tenth = <<>>
    /\ current_section = "None" /\ edu_pc = "idle"

BoldIdle ==
    /\ doc = <<>> /\ section_name = "" /\ stop_words = <<>>
    /\ page_i = 0 /\ inside_section = FALSE
    /\ bold_lines = <<>> /\ bold_result = <<>> /\ bold_pc = "idle"

MainIdle ==
    /\ raw_text = "" /\ skills_text_m = "" /\ cert_text = ""
    /\ certificates = <<>> /\ skills_m = <<>> /\ main_pc = "idle"

(***************************************************************************)
(* Specification of extract_section: a call on a text of up to MaxLines    *)
(* lines, with or without a final newline.                                 *)
(***************************************************************************)
SectionLines == {"PROFILE", "Profile", "Builds things.", "EDUCATION", "B.Tech CS"}

SectionTexts ==
    {JoinLines(ls) \o e : ls \in SeqsUpTo(SectionLines, MaxLines), e \in {"", "\n"}}

\* The calls of main (lines 153-154), a call with no stop heading, and one
\* with its arguments in mixed case.
SectionCalls ==
    { <<"PROFILE", <<"EDUCATION">>>>,
      <<"EDUCATION", <<"EXPERIENCE">>>>,
      <<"PROFILE", <<>>>>,
      <<"Profile", <<"Education">>>> }

InitSection ==
    /\ text \in SectionTexts
    /\ \E c \in SectionCalls : section = c[1] /\ stop_sections = c[2]
    /\ section_result = ""
    /\ sec_pc = "call"
    /\ SkillsIdle /\ EduIdle /\ BoldIdle /\ MainIdle

ExtractSection ==
    /\ sec_pc = "call"
    /\ section_result' = extract_section(text, section, stop_sections)
    /\ sec_pc' = "done"
    /\ UNCHANGED <<text, section, stop_sections>>
    /\ UNCHANGED <<skills_vars, edu_vars, bold_vars, main_vars>>

NextSection == ExtractSection

SpecSection == InitSection /\ [][NextSection]_vars

\* Offset of the first occurrence of h in t (h occurs in t).
FirstOccurrence(t, h) ==
    CHOOSE i \in 1..Len(t) :
        /\ StartsAt(t, i, h)
        /\ \A k \in 1..(i - 1) : ~StartsAt(t, k, h)

\* Everything of t after the first occurrence of h.
AfterFirst(t, h) == Suffix(t, FirstOccurrence(t, h) + Len(h))

\* Some stop heading occurs in s, in any case.
HasStop(s, stops) == \E k \in 1..Len(stops) : Contains(upper(stops[k]), upper(s))

\* C2: for a text that contains the heading and no stop heading after it,
\* extract_section returns all of the text after the first occurrence of the
\* heading, trimmed, whether or not the text ends with a newline.  Stated for
\* an upper-case heading argument and a non-empty stop list.
C2_RestToEndOfText ==
    ( /\ sec_pc = "done"
      /\ section = upper(section)
      /\ stop_sections # <<>>
      /\ Contains(section, text)
      /\ ~HasStop(AfterFirst(text, section), stop_sections) )
    => section_result = strip(AfterFirst(text, section), Whitespace)

\* C3: with an empty stop list and a heading that occurs in the text, the
\* result is all of the text after the heading, every later line included.
C3_EmptyStopsToEnd ==
    ( /\ sec_pc = "done"
      /\ section = upper(section)
      /\ stop_sections = <<>>
      /\ Contains(section, text)
      /\ Contains("\n", AfterFirst(text, section)) )
    => section_result = strip(AfterFirst(text, section), Whitespace)

\* C4: the heading is found by its first occurrence in any case: a text that
\* holds the heading only in lower or mixed case, on a line followed by
\* another line, does not give "Not found".
C4_CaseInsensitiveHeading ==
    ( /\ sec_pc = "done"
      /\ ~Contains(upper(section), text)
      /\ Contains(upper(section), upper(text))
      /\ Contains("\n", AfterFirst(upper(text), upper(section)))
      /\ Char(text, Len(text)) = "\n" )
    => section_result # NotFound

(***************************************************************************)
(* Specification of parse_skills: a call on a text of up to MaxSkillLines  *)
(* lines, one step for each line of the loop.                              *)
(***************************************************************************)
SkillLines == {"Languages", "Python, Go", "Tools", "Git", " C99 , ", ""}

SkillTexts == {JoinLines(ls) : ls \in SeqsUpTo(SkillLines, MaxSkillLines)}

InitSkills ==
    /\ skills_text \in SkillTexts
    /\ skill_lines = <<>> /\ skill_i = 0
    /\ skills = <<>> /\ current = <<>>
    /\ skills_pc = "call"
    /\ SecIdle /\ EduIdle /\ BoldIdle /\ MainIdle

\* lines 52-54
SkillsSplit ==
    /\ skills_pc = "call"
    /\ skill_lines' = splitlines(skills_text)
    /\ skills' = <<>>
    /\ current' = <<>>
    /\ skill_i' = 1
    /\ skills_pc' = "loop"
    /\ UNCHANGED skills_text
    /\ UNCHANGED <<sec_vars, edu_vars, bold_vars, main_vars>>

\* lines 55-63, one line
SkillsLine ==
    /\ skills_pc = "loop"
    /\ skill_i <= Len(skill_lines)
    /\ LET st == SkillsBody([skills |-> skills, current |-> current],
                            skill_lines[skill_i])
       IN  skills' = st.skills /\ current' = st.current
    /\ skill_i' = skill_i + 1
    /\ UNCHANGED <<skills_text, skill_lines, skills_pc>>
    /\ UNCHANGED <<sec_vars, edu_vars, bold_vars, main_vars>>

\* line 64
SkillsReturn ==
    /\ skills_pc = "loop"
    /\ skill_i > Len(skill_lines)
    /\ skills_pc' = "done"
    /\ UNCHANGED <<skills_text, skill_lines, skill_i, skills, current>>
    /\ UNCHANGED <<sec_vars, edu_vars, bold_vars, main_vars>>

NextSkills == SkillsSplit \/ SkillsLine \/ SkillsReturn

SpecSkills == InitSkills /\ [][NextSkills]_vars

(***************************************************************************)
(* Specification of parse_education: a call on a text of up to MaxEduLines *)
(* lines, one step for each line of the loop.                              *)
(***************************************************************************)
EduLines ==
    { "Bachelor of Engineering", "XYZ College", "Intermediate",
      "ABC Junior College", "- High School", " " }

EduTexts == {JoinLines(ls) : ls \in SeqsUpTo(EduLines, MaxEduLines)}

InitEdu ==
    /\ edu_text \in EduTexts
    /\ edu_lines = <<>> /\ edu_i = 0
    /\ btech = <<>> /\ inter = <<>> /\ tenth = <<>>
    /\ current_section = "None"
    /\ edu_pc = "call"
    /\ SecIdle /\ SkillsIdle /\ BoldIdle /\ MainIdle

\* lines 84-86
EduSplit ==
    /\ edu_pc = "call"
    /\ btech' = <<>> /\ inter' = <<>> /\ tenth' = <<>>
    /\ current_section' = "None"
    /\ edu_lines' = extract_certificates(edu_text)
    /\ edu_i' = 1
    /\ edu_pc' = "loop"
    /\ UNCHANGED edu_text
    /\ UNCHANGED <<sec_vars, skills_vars, bold_vars, main_vars>>

\* lines 88-98, one line
EduLine ==
    /\ edu_pc = "loop"
    /\ edu_i <= Len(edu_lines)
    /\ LET st == EduBody([btech |-> btech, inter |-> inter, tenth |-> tenth,
                          current_section |-> current_section],
                         edu_lines[edu_i])
       IN  /\ btech' = st.btech /\ inter' = st.inter /\ tenth' = st.tenth
           /\ current_section' = st.current_section
    /\ edu_i' = edu_i + 1
    /\ UNCHANGED <<edu_text, edu_lines, edu_pc>>
    /\ UNCHANGED <<sec_vars, skills_vars, bold_vars, main_vars>>

\* line 100
EduReturn ==
    /\ edu_pc = "loop"
    /\ edu_i > Len(edu_lines)
    /\ edu_pc' = "done"
    /\ UNCHANGED <<edu_text, edu_lines, edu_i, btech, inter, tenth, current_section>>
    /\ UNCHANGED <<sec_vars, skills_vars, bold_vars, main_vars>>

NextEdu == EduSplit \/ EduLine \/ EduReturn

SpecEdu == InitEdu /\ [][NextEdu]_vars

(***************************************************************************)
(* Specification of extract_bold_lines_from_section, as main calls it at   *)
(* line 162.  The PDF library yields the document page by page and span    *)
(* by span: doc holds the spans read so far, in document order (the loops  *)
(* over blocks and lines of lines 22-23 keep no state and are flattened),  *)
(* and page_i counts the pages begun.                                      *)
(***************************************************************************)
Spans ==
    { [text |-> "Projects", font |-> "Arial-BoldMT", flags |-> 16],
      [text |-> "PROJECTS AND SKILLS", font |-> "Arial", flags |-> 2],
      [text |-> "Skills", font |-> "Arial-Bold", flags |-> 0],
      [text |-> " Resume Parser ", font |-> "Helvetica-Bold", flags |-> 0],
      [text |-> "Chatbot", font |-> "Arial", flags |-> 6],
      [text |-> "Built with Python", font |-> "Arial", flags |-> 16],
      [text |-> "  ", font |-> "Arial-Bold", flags |-> 2] }

InitBold ==
    /\ doc = <<>>
    /\ section_name = "PROJECTS"
    /\ stop_words = <<"CERTIFICATES", "SKILLS", "LANGUAGES", "DECLARATION">>
    /\ page_i = 0
    /\ inside_section = FALSE
    /\ bold_lines = <<>>
    /\ bold_result = <<>>
    /\ bold_pc = "loop"
    /\ SecIdle /\ SkillsIdle /\ EduIdle /\ MainIdle

\* NextPage with inside_section initialised inside the page loop.
NextPage_ResetFlag ==
    /\ bold_pc = "loop"
    /\ page_i < MaxPages
    /\ page_i' = page_i + 1
    /\ inside_section' = FALSE
    /\ UNCHANGED <<doc, section_name, stop_words, bold_lines, bold_result, bold_pc>>
    /\ UNCHANGED <<sec_vars, skills_vars, edu_vars, main_vars>>

\* line 20: the next page of the document begins
NextPage ==
    /\ bold_pc = "loop"
    /\ page_i < MaxPages
    /\ page_i' = page_i + 1
    /\ UNCHANGED <<doc, section_name, stop_words, inside_section, bold_lines,
                   bold_result, bold_pc>>
    /\ UNCHANGED <<sec_vars, skills_vars, edu_vars, main_vars>>

\* lines 22-34: the next span of the current page
ReadSpan ==
    /\ bold_pc = "loop"
    /\ page_i >= 1
    /\ Len(doc) < MaxSpans
    /\ \E span \in Spans :
          /\ doc' = Append(doc, span)
          /\ LET st == BoldBody([inside_section |-> inside_section,
                                 bold_lines |-> bold_lines],
                                span, section_name, stop_words)
             IN  /\ inside_section' = st.inside_section
                 /\ bold_lines' = st.bold_lines
    /\ UNCHANGED <<section_name, stop_words, page_i, bold_result, bold_pc>>
    /\ UNCHANGED <<sec_vars, skills_vars, edu_vars, main_vars>>

\* line 35: the document is exhausted
BoldReturn ==
    /\ bold_pc = "loop"
    /\ bold_result' = BoldResult(bold_lines, section_name)
    /\ bold_pc' = "done"
    /\ UNCHANGED <<doc, section_name, stop_words, page_i, inside_section, bold_lines>>
    /\ UNCHANGED <<sec_vars, skills_vars, edu_vars, main_vars>>

NextBold == NextPage \/ ReadSpan \/ BoldReturn

SpecBold == InitBold /\ [][NextBold]_vars

(***************************************************************************)
(* Specification of main, lines 155-159: the statements that produce the   *)
(* skills mapping and the certificates list from the document text.        *)
(***************************************************************************)
DocLines ==
    { "SKILLS", "Languages", "Python, Go", "PROJECTS", "CERTIFICATES",
      "- AWS Cloud", "LANGUAGES" }

DocTexts ==
    {JoinLines(ls) \o e : ls \in SeqsUpTo(DocLines, MaxDocLines), e \in {"", "\n"}}

InitMain ==
    /\ raw_text \in DocTexts
    /\ skills_text_m = "" /\ cert_text = ""
    /\ certificates = <<>> /\ skills_m = <<>>
    /\ main_pc = "skills_text"
    /\ SecIdle /\ SkillsIdle /\ EduIdle /\ BoldIdle

\* line 155
MainSkillsText ==
    /\ main_pc = "skills_text"
    /\ skills_text_m' = extract_section(raw_text, "SKILLS", <<"PROJECTS">>)
    /\ main_pc' = "cert_text"
    /\ UNCHANGED <<raw_text, cert_text, certificates, skills_m>>
    /\ UNCHANGED <<sec_vars, skills_vars, edu_vars, bold_vars>>

\* line 156
MainCertText ==
    /\ main_pc = "cert_text"
    /\ cert_text' = extract_section(raw_text, "CERTIFICATES", <<"LANGUAGES">>)
    /\ main_pc' = "certificates"
    /\ UNCHANGED <<raw_text, skills_text_m, certificates, skills_m>>
    /\ UNCHANGED <<sec_vars, skills_vars, edu_vars, bold_vars>>

\* line 157
MainCertificates ==
    /\ main_pc = "certificates"
    /\ certificates' = extract_certificates(cert_text)
    /\ main_pc' = "skills"
    /\ UNCHANGED <<raw_text, skills_text_m, cert_text, skills_m>>
    /\ UNCHANGED <<sec_vars, skills_vars, edu_vars, bold_vars>>

\* line 159
MainSkills ==
    /\ main_pc = "skills"
    /\ skills_m' = parse_skills(skills_text_m)
    /\ main_pc' = "done"
    /\ UNCHANGED <<raw_text, skills_text_m, cert_text, certificates>>
    /\ UNCHANGED <<sec_vars, skills_vars, edu_vars, bold_vars>>

NextMain == MainSkillsText \/ MainCertText \/ MainCertificates \/ MainSkills

SpecMain == InitMain /\ [][NextMain]_vars

(***************************************************************************)
(* Properties of parse_skills (SpecSkills).                                *)
(***************************************************************************)
ScenarioC == "Languages\nPython, Go\nTools\nGit"

\* A non-empty line of letters and spaces only.
LettersAndSpacesOnly(line) ==
    /\ line # ""
    /\ \A k \in 1..Len(line) : IsLetter(Char(line, k)) \/ Char(line, k) = " "

\* The trimmed non-empty pieces of s between commas; cur is the piece begun.
Piece(cur) ==
    IF strip(cur, Whitespace) = "" THEN <<>> ELSE <<strip(cur, Whitespace)>>

RECURSIVE CommaTokens(_, _)
CommaTokens(s, cur) ==
    IF s = "" THEN Piece(cur)
    ELSE IF Char(s, 1) = "," THEN Piece(cur) \o CommaTokens(Suffix(s, 2), "")
    ELSE CommaTokens(Suffix(s, 2), cur \o Char(s, 1))

SkillLine(k) == strip(skill_lines[k], Whitespace)

CategoryAt(k) == SkillLine(k) # "" /\ IsCategoryLine(SkillLine(k))

Occurrences(name) == {k \in 1..Len(skill_lines) : CategoryAt(k) /\ SkillLine(k) = name}

FirstCat(name) == CHOOSE k \in Occurrences(name) : \A j \in Occurrences(name) : k <= j

LastCat(name) == CHOOSE k \in Occurrences(name) : \A j \in Occurrences(name) : k >= j

\* The items of the value lines that follow line k, up to the next category line.
RECURSIVE ItemsAfter(_)
ItemsAfter(k) ==
    IF k + 1 > Len(skill_lines) \/ CategoryAt(k + 1) THEN <<>>
    ELSE Items(SkillLine(k + 1)) \o ItemsAfter(k + 1)

\* C10: a category name that occurs on several category lines has, in the
\* result, only the items of the value lines after its last occurrence, and
\* keeps the position of its first occurrence in the order of the mapping.
C10_RepeatedCategoryResets ==
    skills_pc = "done" =>
        /\ {skills[n].key : n \in 1..Len(skills)}
             = {SkillLine(k) : k \in {j \in 1..Len(skill_lines) : CategoryAt(j)}}
        /\ \A n \in 1..Len(skills) :
              skills[n].value = ItemsAfter(LastCat(skills[n].key))
        /\ \A n, m \in 1..Len(skills) :
              n < m => FirstCat(skills[n].key) < FirstCat(skills[m].key)

\* A category occurred twice with items under both occurrences: the items of
\* the earlier occurrence are gone from the result.
C10_Witness ==
    /\ skills_pc = "done"
    /\ \E n \in 1..Len(skills) :
          LET name == skills[n].key
          IN  /\ FirstCat(name) < LastCat(name)
              /\ ItemsAfter(FirstCat(name)) # <<>>
              /\ skills[n].value # <<>>
              /\ skills[n].value = ItemsAfter(LastCat(name))
              /\ skills[n].value # ItemsAfter(FirstCat(name))

(***************************************************************************)
(* Properties of parse_education (SpecEdu).                                *)
(***************************************************************************)
\* The bucket each line selects by itself, "None" if it is no trigger line.
RECURSIVE Selected(_)
Selected(ls) ==
    IF ls = <<>> THEN <<>> ELSE <<Reclassify("None", Head(ls))>> \o Selected(Tail(ls))

\* The bucket current at line k: that of the last trigger line at or before k.
RECURSIVE BucketAt(_, _)
BucketAt(sel, k) ==
    IF k = 0 THEN "None"
    ELSE IF sel[k] # "None" THEN sel[k]
    ELSE BucketAt(sel, k - 1)

\* The lines from k on whose current bucket is b, in input order.
RECURSIVE LinesOf(_, _, _)
LinesOf(sel, b, k) ==
    IF k > Len(edu_lines) THEN <<>>
    ELSE (IF BucketAt(sel, k) = b THEN <<edu_lines[k]>> ELSE <<>>)
         \o LinesOf(sel, b, k + 1)

Dropped(sel) == {k \in 1..Len(sel) : BucketAt(sel, k) = "None"}

\* C8: every non-blank, bullet-stripped line is in exactly one of the three
\* buckets or dropped; the dropped lines are those before the first trigger
\* line; every other line is in the bucket current at that line, and each
\* bucket keeps input order across non-contiguous trigger occurrences.
C8_EducationPartition ==
    edu_pc = "done" =>
        LET sel == Selected(edu_lines)
            raw == splitlines(edu_text)
        IN  /\ Len(edu_lines)
                 = Cardinality({k \in 1..Len(raw) : strip(raw[k], Whitespace) # ""})
            /\ btech = LinesOf(sel, "btech", 1)
            /\ inter = LinesOf(sel, "inter", 1)
            /\ tenth = LinesOf(sel, "tenth", 1)
            /\ Len(btech) + Len(inter) + Len(tenth) + Cardinality(Dropped(sel))
                 = Len(edu_lines)
            /\ \A k \in 1..Len(edu_lines) :
                  k \in Dropped(sel) <=> \A j \in 1..k : sel[j] = "None"

\* A line was dropped before the first trigger, and the bachelor's bucket
\* gathered two lines that are not adjacent in the input.
C8_Witness ==
    /\ edu_pc = "done"
    /\ Len(edu_lines) = 4
    /\ Dropped(Selected(edu_lines)) = {1}
    /\ btech = <<edu_lines[2], edu_lines[4]>>
    /\ inter = <<edu_lines[3]>>
    /\ tenth = <<>>

(***************************************************************************)
(* Properties of extract_bold_lines_from_section (SpecBold).  The stop     *)
(* headings are upper-case, as at both call sites; span texts are in any   *)
(* case.                                                                   *)
(***************************************************************************)
\* The text holds the section heading, in any case.
HoldsHeading(t) == Contains(upper(section_name), upper(t))

\* The text holds, in any case, one of the (upper-case) stop headings.
HoldsStop(t) ==
    LET u == upper(t)
    IN  \E k \in 1..Len(stop_words) : Contains(stop_words[k], u)

Blank(span) == strip(span.text, Whitespace) = ""

\* What a span is to the segmenter; a span holding both headings is a heading.
Kind(span) ==
    IF Blank(span) THEN "blank"
    ELSE IF HoldsHeading(span.text) THEN "heading"
    ELSE IF HoldsStop(span.text) THEN "stop"
    ELSE IF IsBold(span) THEN "bold"
    ELSE "plain"

RECURSIVE Kinds(_)
Kinds(d) == IF d = <<>> THEN <<>> ELSE <<Kind(Head(d))>> \o Kinds(Tail(d))

\* The inside-section state after the first k spans: that set by the last
\* heading or stop span among them, false if there is none.
RECURSIVE InsideAt(_, _)
InsideAt(kinds, k) ==
    IF k = 0 THEN FALSE
    ELSE IF kinds[k] = "heading" THEN TRUE
    ELSE IF kinds[k] = "stop" THEN FALSE
    ELSE InsideAt(kinds, k - 1)

\* Span k is content to collect: bold, not blank, neither heading nor stop,
\* and read while inside the section.
CollectedAt(kinds, k) == kinds[k] = "bold" /\ InsideAt(kinds, k - 1)

Collected(d, k) == CollectedAt(Kinds(d), k)

RECURSIVE TextsFrom(_, _, _)
TextsFrom(d, kinds, k) ==
    IF k > Len(d) THEN <<>>
    ELSE (IF CollectedAt(kinds, k) THEN <<strip(d[k].text, Whitespace)>> ELSE <<>>)
         \o TextsFrom(d, kinds, k + 1)

C7_SentinelOrCollected ==
    bold_pc = "done" =>
        /\ bold_result # <<>>
        /\ (bold_lines = <<>> => bold_result = <<"No bold lines found in PROJECTS">>)
        /\ (bold_lines # <<>> => bold_result = bold_lines)

\* The section was entered and held only a span that is not bold: the
\* result is the sentinel.
C7_Witness ==
    /\ bold_pc = "done"
    /\ Len(doc) = 2
    /\ HoldsHeading(doc[1].text)
    /\ ~Blank(doc[2]) /\ ~IsBold(doc[2]) /\ ~HoldsStop(doc[2].text)
    /\ inside_section
    /\ bold_result = <<"No bold lines found in PROJECTS">>

\* C9: the flag starts false and is, at every span and across pages, the one
\* set by the last heading or stop span read; the collected texts are, in
\* document order, those of the bold non-empty spans read while the last
\* such span was a heading, whichever occurrence of the heading it was.
C9_FlagFollowsLastMarker ==
    bold_pc = "loop" =>
        LET kinds == Kinds(doc)
        IN  /\ inside_section = InsideAt(kinds, Len(doc))
            /\ bold_lines = TextsFrom(doc, kinds, 1)

\* Heading, stop, heading again, then a bold span on a later page: the span
\* after the second occurrence of the heading was collected.
C9_Witness ==
    /\ Len(doc) = 4
    /\ page_i = 2
    /\ HoldsHeading(doc[1].text)
    /\ HoldsStop(doc[2].text) /\ ~HoldsHeading(doc[2].text)
    /\ HoldsHeading(doc[3].text)
    /\ Collected(doc, 4)
    /\ bold_lines = <<strip(doc[4].text, Whitespace)>>
    /\ inside_section

(***************************************************************************)
(* Properties of main (SpecMain).                                          *)
(***************************************************************************)
\* C6: when the SKILLS heading does not occur in the document text the
\* skills mapping is empty, and when the CERTIFICATES heading does not occur
\* the certificates list is empty.
C6_AbsentSectionsGiveEmpty ==
    main_pc = "done" =>
        /\ (~Contains("SKILLS", upper(raw_text)) => skills_m = <<>>)
        /\ (~Contains("CERTIFICATES", upper(raw_text)) => certificates = <<>>)

====
